---- MODULE Spec2Model ----
(***************************************************************************)
(* Monte-Carlo simulators of mcBase.h: mcSimul, mcParallelSimul,           *)
(* mcSimulAAD and mcParallelSimulAAD, run by a caller thread (thread 0)    *)
(* and the workers of a thread pool (threads 1..nThread).                  *)
(*                                                                         *)
(* The simulators are translated from src/mcBase.h.  The tape and the      *)
(* active number (AADNumber.h), the thread pool (threadPool.h) and the     *)
(* concrete model, product and generator are not part of src/: they are    *)
(* modelled from their contract in spec.md, with integer arithmetic so     *)
(* that sums of adjoints are exact.                                        *)
(***************************************************************************)
EXTENDS Integers, Sequences, FiniteSets, TLC

\* ------------------------------------------------------------------------
\* Bounds of the model
\* ------------------------------------------------------------------------
MaxPath == 5        \* nPath ranges over 1..MaxPath
MaxThread == 2      \* pool->numThreads() ranges over 0..MaxThread
MaxBatch == 4       \* paths per task range over 1..MaxBatch
MaxSeed == 1        \* the caller's generator starts at draw 0..MaxSeed
MaxCalls == 2       \* simulator calls made one after the other
MaxTasks == 3       \* batches of one call: nPath <= MaxTasks * BATCHSIZE
MaxSkip == 5        \* the argument of RNG::skipTo ranges over 0..MaxSkip

\* BATCHSIZE is 64 in the source (mcBase.h:145).  What the simulators depend
\* on is its parity: the model scales it down and keeps it even.
EvenBatchSizes == {b \in 1..MaxBatch : b % 2 = 0}
AnyBatchSizes == 1..MaxBatch

Min(a, b) == IF a < b THEN a ELSE b

\* ------------------------------------------------------------------------
\* Tape of the active numbers (Tape / Number of AADNumber.h, spec.md 3, 4.1)
\* A node holds the positions of its arguments on the tape, the partial
\* derivatives to them and its adjoint.  kind, sim and path tell what
\* recorded the node: the registration of a parameter, Model::init, or the
\* path with that absolute index (path = -1 for the set-up).
\* ------------------------------------------------------------------------
EmptyTape == [nodes |-> <<>>, mark |-> 0, marked |-> FALSE]

Node(args, ders, kind, sim, path) ==
    [args |-> args, ders |-> ders, adj |-> 0, kind |-> kind, sim |-> sim, path |-> path]

Record(tp, node) == [tp EXCEPT !.nodes = Append(@, node)]

Rewind(tp) == EmptyTape

Mark(tp) == [tp EXCEPT !.mark = Len(tp.nodes), !.marked = TRUE]

RewindToMark(tp) == [tp EXCEPT !.nodes = SubSeq(@, 1, tp.mark)]

\* adjoint(input) += partial * adjoint(output), for every argument of node n
RECURSIVE PropagateNode(_, _, _)
PropagateNode(nodes, n, k) ==
    IF k > Len(nodes[n].args) THEN nodes
    ELSE LET a == nodes[n].args[k]
         IN PropagateNode([nodes EXCEPT ![a].adj = @ + nodes[n].ders[k] * nodes[n].adj],
                          n, k + 1)

\* walk the tape backwards from node `from` down to node `to`
RECURSIVE PropagateRange(_, _, _)
PropagateRange(nodes, from, to) ==
    IF from < to THEN nodes
    ELSE PropagateRange(PropagateNode(nodes, from, 1), from - 1, to)

ResetAdjoints(nodes) == [n \in 1..Len(nodes) |-> [nodes[n] EXCEPT !.adj = 0]]

\* Number::propagateToMark(reset) on the result recorded at position r
PropagateToMark(tp, r, reset) ==
    LET base == IF reset THEN ResetAdjoints(tp.nodes) ELSE tp.nodes
        seeded == [base EXCEPT ![r].adj = 1]
    IN [tp EXCEPT !.nodes = PropagateRange(seeded, r, tp.mark + 1)]

\* Number::propagateMarkToStart()
PropagateMarkToStart(tp) ==
    [tp EXCEPT !.nodes = PropagateRange(tp.nodes, Min(tp.mark, Len(tp.nodes)), 1)]

\* ------------------------------------------------------------------------
\* Generator (class RNG).  A generator is its dimension and the number of
\* the draw its next nextG returns; draw n is the vector Draw(n, dim).
\* ------------------------------------------------------------------------
Draw(n, dim) == [k \in 1..dim |-> n + k]

RngInit(r, simDim) == [r EXCEPT !.dim = simDim]

NextG(r) == [rng |-> [r EXCEPT !.pos = @ + 1], gaussVec |-> Draw(r.pos, r.dim)]

\* RNG::skipTo: for (int i = 0; i < b; ++i) nextG(dummy);
RECURSIVE SkipLoop(_, _, _)
SkipLoop(r, i, b) == IF i < b THEN SkipLoop(NextG(r).rng, i + 1, b) ELSE r

\* mutant of SkipTo: the loop starts at i = 1
SkipTo_FromOne(r, b) == SkipLoop(r, 1, b)

SkipTo(r, b) == SkipLoop(r, 0, b)

Negate(gaussVec) == [k \in DOMAIN gaussVec |-> 0 - gaussVec[k]]

\* ------------------------------------------------------------------------
\* Model and product.  Model<T> and Product<T> are abstract in mcBase.h; the
\* instance modelled here has two parameters p1, p2, a coefficient
\* coef = p1 * p2 computed by init, the path
\*     spot[1] = p1 + coef * g[1],  spot[t] = spot[t-1] + coef * g[t]
\* and the payoff spot[1] * spot[last].  A number is its value and the
\* position of its node on the tape (0 when it is a plain double).
\* ------------------------------------------------------------------------
Timeline == <<1, 2>>

ParamValues == <<1, 2>>

Num(v, n) == [value |-> v, node |-> n]

NewModel ==
    [params |-> [j \in DOMAIN ParamValues |-> Num(ParamValues[j], 0)],
     coef |-> Num(0, 0), timeline |-> <<>>, inited |-> FALSE]

NewRng(s) == [dim |-> 0, pos |-> s]

\* Model::simDim()
SimDimOf(m) == Len(m.timeline)

\* Model::putOnTape(): every parameter becomes a leaf of the tape, adjoint 0
RECURSIVE PutOnTapeFrom(_, _, _, _)
PutOnTapeFrom(m, tp, sim, j) ==
    IF j > Len(m.params) THEN [mdl |-> m, tape |-> tp]
    ELSE LET tp2 == Record(tp, Node(<<>>, <<>>, "param", sim, -1))
         IN PutOnTapeFrom([m EXCEPT !.params[j].node = Len(tp2.nodes)], tp2, sim, j + 1)

PutOnTape(m, tp, sim) == PutOnTapeFrom(m, tp, sim, 1)

\* Model::init(productTimeline); with aad the product p1 * p2 is recorded
ModelInit(m, timeline, tp, aad, sim) ==
    LET p1 == m.params[1]
        p2 == m.params[2]
        tp2 == IF aad
               THEN Record(tp, Node(<<p1.node, p2.node>>, <<p2.value, p1.value>>,
                                    "init", sim, -1))
               ELSE tp
        c == Num(p1.value * p2.value, IF aad THEN Len(tp2.nodes) ELSE 0)
    IN [mdl |-> [m EXCEPT !.coef = c, !.timeline = timeline, !.inited = TRUE],
        tape |-> tp2]

\* Model::generatePath(gaussVec, path): fills path[t..] from path[t-1]
RECURSIVE GeneratePathFrom(_, _, _, _, _, _, _)
GeneratePathFrom(m, gaussVec, path, tp, aad, tag, t) ==
    IF t > Len(path) THEN [path |-> path, tape |-> tp]
    ELSE LET prev == IF t = 1 THEN m.params[1] ELSE path[t - 1]
             g == gaussVec[t]
             tpA == IF aad
                    THEN Record(tp, Node(<<m.coef.node>>, <<g>>, "path", tag[1], tag[2]))
                    ELSE tp
             shock == Num(m.coef.value * g, IF aad THEN Len(tpA.nodes) ELSE 0)
             tpB == IF aad
                    THEN Record(tpA, Node(<<prev.node, shock.node>>, <<1, 1>>,
                                          "path", tag[1], tag[2]))
                    ELSE tpA
             spot == Num(prev.value + shock.value, IF aad THEN Len(tpB.nodes) ELSE 0)
         IN GeneratePathFrom(m, gaussVec, [path EXCEPT ![t] = spot], tpB, aad, tag, t + 1)

GeneratePath(m, gaussVec, path, tp, aad, tag) ==
    GeneratePathFrom(m, gaussVec, path, tp, aad, tag, 1)

\* Product::payoff(path)
Payoff(path, tp, aad, tag) ==
    LET a == path[1]
        b == path[Len(path)]
        tp2 == IF aad
               THEN Record(tp, Node(<<a.node, b.node>>, <<b.value, a.value>>,
                                    "path", tag[1], tag[2]))
               ELSE tp
    IN [res |-> Num(a.value * b.value, IF aad THEN Len(tp2.nodes) ELSE 0), tape |-> tp2]

\* vector<scenario<T>> path(prd.timeline().size())
NewPath(timeline) == [t \in 1..Len(timeline) |-> Num(0, 0)]

\* vector<double> gaussVec(simDim)
NewGaussVec(simDim) == [k \in 1..simDim |-> 0]

\* Model::parameters()[j].adjoint(): the adjoint of the parameter's node
Adjoint(m, tp, j) == tp.nodes[m.params[j].node].adj

Adjoints(m, tp) == [j \in DOMAIN m.params |-> Adjoint(m, tp, j)]

\* ------------------------------------------------------------------------
\* State
\* ------------------------------------------------------------------------
VARIABLES
    nPath,        \* argument nPath
    antithetic,   \* argument antithetic
    nThread,      \* pool->numThreads()
    batchSize,    \* BATCHSIZE
    mdl,          \* the caller's model (argument mdl)
    rng,          \* the caller's generator (argument rng)
    call,         \* the simulator the caller is in, "idle", or "skipTo" (RNG::skipTo alone)
    pc,           \* where the caller is in it
    nCalls,       \* simulator calls made so far
    cMdl,         \* model clones: cMdl[0] in the sequential and plain parallel
                  \* simulators, cMdl[threadNum] in mcParallelSimulAAD
    cRng,         \* generator clones, as cMdl
    gaussVecs,    \* gaussVecs[threadNum] (gaussVec of the sequential simulators is [0])
    paths,        \* paths[threadNum]
    res,          \* vector res
    i,            \* loop index of the sequential simulators
    antiPath,     \* antithetic toggle of the sequential simulators
    firstPath,    \* spawning loop: first path of the next batch
    pathsLeft,    \* spawning loop: paths not yet given to a task
    futures,      \* the spawned tasks, each with the firstPath and pathsInTask it captured
    init,         \* initialised indicators of mcParallelSimulAAD
    queue,        \* tasks spawned and not yet taken by a thread
    done,         \* first paths of the tasks that returned
    task,         \* task[t]: the task thread t runs and its locals
    waitIdx,      \* position of the caller in "for (auto& future : futures)"
    finIdx,       \* loop index of the finalisation loops of mcParallelSimulAAD
    tape,         \* tape[0]: the caller's tape; tape[k]: tapes[k-1] of mcParallelSimulAAD
    tapePtr,      \* Number::tape of each thread (thread local)
    mainThreadPtr,\* local mainThreadPtr of mcParallelSimulAAD
    gaussOf,      \* observation: the Gaussian vector path p was generated from
    written,      \* observation: how many times res[p] was assigned
    tapeUsers,    \* observation: the threads that operated on each tape in this call
    trace,        \* observation: trace[t], the operations thread t performed in this call,
                  \* each with the tape it was performed on (path operations: first path only)
    access,       \* observation: access[t], the objects the task thread t is running has
                  \* read ("r") or written ("w") so far
    ret           \* what each simulator returned last (payoffs, adjoints of the returned
                  \* model) and, observation, the threads that were initialised in it

inputs == <<nPath, antithetic, nThread, batchSize, mdl, rng>>
clones == <<cMdl, cRng, gaussVecs, paths>>
seqLoop == <<i, antiPath>>
spawning == <<firstPath, pathsLeft, futures>>
pool == <<queue, done, task, waitIdx>>
tapeVars == <<tape, tapePtr, mainThreadPtr, tapeUsers, init, finIdx>>
observed == <<gaussOf, written, trace, access>>

vars == <<inputs, call, pc, nCalls, clones, res, seqLoop, spawning, pool, tapeVars,
          observed, ret>>

Threads == 0..MaxThread

Simulators == {"mcSimul", "mcParallelSimul", "mcSimulAAD", "mcParallelSimulAAD"}

\* a tape is designated by the thread it belongs to and the call that made it;
\* the caller's tape outlives the calls
MainTapePtr == [owner |-> 0, sim |-> 0]

IdleTask ==
    [busy |-> FALSE, firstPath |-> 0, pathsInTask |-> 0, i |-> 0, antiPath |-> FALSE,
     taskRng |-> NewRng(0)]

NoResult == [set |-> FALSE, payoffs |-> <<>>, adjoints |-> <<>>, ran |-> {}]

\* the state before the first call, BATCHSIZE being one of batchSizes
InitWith(batchSizes) ==
    /\ nPath \in 1..MaxPath
    /\ antithetic \in BOOLEAN
    /\ nThread \in 0..MaxThread
    /\ batchSize \in batchSizes
    /\ nPath <= MaxTasks * batchSize
    /\ mdl = NewModel
    /\ rng \in {NewRng(s) : s \in 0..MaxSeed}
    /\ call = "idle"
    /\ pc = "idle"
    /\ nCalls = 0
    /\ cMdl = [t \in Threads |-> NewModel]
    /\ cRng = [t \in Threads |-> NewRng(0)]
    /\ gaussVecs = [t \in Threads |-> <<>>]
    /\ paths = [t \in Threads |-> <<>>]
    /\ res = <<>>
    /\ i = 0
    /\ antiPath = FALSE
    /\ firstPath = 0
    /\ pathsLeft = 0
    /\ futures = <<>>
    /\ init = [t \in Threads |-> FALSE]
    /\ queue = {}
    /\ done = {}
    /\ task = [t \in Threads |-> IdleTask]
    /\ waitIdx = 0
    /\ finIdx = 0
    /\ tape = [t \in Threads |-> EmptyTape]
    /\ tapePtr = [t \in Threads |-> MainTapePtr]
    /\ mainThreadPtr = MainTapePtr
    /\ gaussOf = <<>>
    /\ written = <<>>
    /\ tapeUsers = [t \in Threads |-> {}]
    /\ trace = [t \in Threads |-> <<>>]
    /\ access = [t \in Threads |-> {}]
    /\ ret = [s \in Simulators |-> NoResult]

Init == InitWith(EvenBatchSizes)

\* ------------------------------------------------------------------------
\* What the four simulators share
\* ------------------------------------------------------------------------

\* mutant of NextGaussian: the toggle is never switched on
NextGaussian_NoToggle(antith, r, gaussVec, anti) ==
    [rng |-> NextG(r).rng, gaussVec |-> NextG(r).gaussVec, antiPath |-> FALSE]

\* The antithetic logic of the path loops: the next Gaussian vector, the
\* generator and the toggle after it
NextGaussian(antith, r, gaussVec, anti) ==
    IF ~antith
    THEN [rng |-> NextG(r).rng, gaussVec |-> NextG(r).gaussVec, antiPath |-> anti]
    ELSE IF ~anti
         THEN [rng |-> NextG(r).rng, gaussVec |-> NextG(r).gaussVec, antiPath |-> TRUE]
         ELSE [rng |-> r, gaussVec |-> Negate(gaussVec), antiPath |-> FALSE]

\* mutant of SkipTarget: the generator is positioned at firstPath even with antithetic
SkipTarget_NoHalf(antith, first) == first

\* taskRng->skipTo(antithetic ? firstPath / 2 : firstPath)
SkipTarget(antith, first) == IF antith THEN first \div 2 ELSE first

\* convert(res.begin(), res.end(), results.first.begin())
Values(r) == [p \in 1..Len(r) |-> r[p].value]

\* entering a simulator: a new call, nothing observed yet
EnterCall(s) ==
    /\ call = "idle"
    /\ nCalls < MaxCalls
    /\ call' = s
    /\ nCalls' = nCalls + 1

\* returning from a simulator: its locals are destroyed
LeaveCall ==
    /\ call' = "idle"
    /\ pc' = "idle"
    /\ cMdl' = [t \in Threads |-> NewModel]
    /\ cRng' = [t \in Threads |-> NewRng(0)]
    /\ gaussVecs' = [t \in Threads |-> <<>>]
    /\ paths' = [t \in Threads |-> <<>>]
    /\ res' = <<>>
    /\ i' = 0
    /\ antiPath' = FALSE
    /\ firstPath' = 0
    /\ pathsLeft' = 0
    /\ futures' = <<>>
    /\ init' = [t \in Threads |-> FALSE]
    /\ queue' = {}
    /\ done' = {}
    /\ task' = [t \in Threads |-> IdleTask]
    /\ waitIdx' = 0
    /\ finIdx' = 0
    /\ mainThreadPtr' = MainTapePtr
    /\ gaussOf' = <<>>
    /\ written' = <<>>
    /\ tapeUsers' = [t \in Threads |-> {}]
    /\ trace' = [t \in Threads |-> <<>>]
    /\ access' = [t \in Threads |-> {}]
    /\ UNCHANGED <<inputs, nCalls>>

\* ------------------------------------------------------------------------
\* mcSimul
\* ------------------------------------------------------------------------

\* mutant of McSimulSetup: the caller's generator is initialised and used, not a clone
McSimulSetup_OnCaller ==
    /\ EnterCall("mcSimul")
    /\ LET m == ModelInit(mdl, Timeline, EmptyTape, FALSE, 0).mdl
           r == RngInit(rng, SimDimOf(m))
       IN /\ cMdl' = [cMdl EXCEPT ![0] = m]
          /\ cRng' = [cRng EXCEPT ![0] = r]
          /\ rng' = r
          /\ gaussVecs' = [gaussVecs EXCEPT ![0] = NewGaussVec(SimDimOf(m))]
          /\ paths' = [paths EXCEPT ![0] = NewPath(Timeline)]
    /\ res' = [p \in 1..nPath |-> Num(0, 0)]
    /\ i' = 0
    /\ antiPath' = FALSE
    /\ pc' = "loop"
    /\ written' = [p \in 1..nPath |-> 0]
    /\ gaussOf' = [p \in 1..nPath |-> <<>>]
    /\ UNCHANGED <<nPath, antithetic, nThread, batchSize, mdl, spawning, pool, tapeVars,
                   trace, access, ret>>

\* lines 103-113: clones, init, allocations
McSimulSetup ==
    /\ EnterCall("mcSimul")
    /\ LET m == ModelInit(mdl, Timeline, EmptyTape, FALSE, 0).mdl
           r == RngInit(rng, SimDimOf(m))
       IN /\ cMdl' = [cMdl EXCEPT ![0] = m]
          /\ cRng' = [cRng EXCEPT ![0] = r]
          /\ gaussVecs' = [gaussVecs EXCEPT ![0] = NewGaussVec(SimDimOf(m))]
          /\ paths' = [paths EXCEPT ![0] = NewPath(Timeline)]
    /\ res' = [p \in 1..nPath |-> Num(0, 0)]
    /\ i' = 0
    /\ antiPath' = FALSE
    /\ pc' = "loop"
    /\ written' = [p \in 1..nPath |-> 0]
    /\ gaussOf' = [p \in 1..nPath |-> <<>>]
    /\ UNCHANGED <<inputs, spawning, pool, tapeVars, trace, access, ret>>

\* lines 114-138: one iteration of the path loop
McSimulPath ==
    /\ call = "mcSimul"
    /\ pc = "loop"
    /\ i < nPath
    /\ LET ng == NextGaussian(antithetic, cRng[0], gaussVecs[0], antiPath)
           gp == GeneratePath(cMdl[0], ng.gaussVec, paths[0], EmptyTape, FALSE, <<0, i>>)
           po == Payoff(gp.path, EmptyTape, FALSE, <<0, i>>)
       IN /\ cRng' = [cRng EXCEPT ![0] = ng.rng]
          /\ gaussVecs' = [gaussVecs EXCEPT ![0] = ng.gaussVec]
          /\ antiPath' = ng.antiPath
          /\ paths' = [paths EXCEPT ![0] = gp.path]
          /\ res' = [res EXCEPT ![i + 1] = po.res]
          /\ gaussOf' = [gaussOf EXCEPT ![i + 1] = ng.gaussVec]
    /\ written' = [written EXCEPT ![i + 1] = @ + 1]
    /\ i' = i + 1
    /\ UNCHANGED <<inputs, call, pc, nCalls, cMdl, spawning, pool, tapeVars, trace, access,
                   ret>>

\* line 140: return res
McSimulReturn ==
    /\ call = "mcSimul"
    /\ pc = "loop"
    /\ i = nPath
    /\ ret' = [ret EXCEPT !["mcSimul"] =
                  [set |-> TRUE, payoffs |-> Values(res), adjoints |-> <<>>, ran |-> {}]]
    /\ LeaveCall
    /\ UNCHANGED <<tape, tapePtr>>

\* ------------------------------------------------------------------------
\* Thread pool (threadPool.h, spec.md 4.5 and 6): spawnTask queues a task,
\* an idle worker takes any queued task, and the caller inside
\* activeWait(future) takes queued tasks itself while the future is not ready.
\* ------------------------------------------------------------------------
Parallel == {"mcParallelSimul", "mcParallelSimulAAD"}

\* mutant of WaitHelps: the caller blocks on the future, future.wait()
WaitHelps_PlainWait == FALSE

\* lines 234, 524: the caller waits with pool->activeWait(future), which runs
\* queued tasks on the caller while the future is not ready
WaitHelps == TRUE

\* mutant of ThreadNum: every task uses the slots of the caller
ThreadNum_Zero(t) == 0

\* lines 189, 451: threadNum = pool->threadNum(), the index a task running on
\* thread t gives to cMdl, cRng, gaussVecs, paths and init
ThreadNum(t) == t

\* thread t may take a task from the queue
CanTake(t) ==
    /\ t <= nThread
    /\ ~task[t].busy
    /\ queue # {}
    /\ t = 0 => /\ WaitHelps
                /\ pc = "wait"
                /\ waitIdx <= Len(futures)
                /\ futures[waitIdx].firstPath \notin done

\* mutant of SpawnBatch: every batch is given BATCHSIZE paths
SpawnBatch_NoMin ==
    LET pathsInTask == batchSize
        spawned == [firstPath |-> firstPath, pathsInTask |-> pathsInTask]
    IN /\ queue' = queue \cup {spawned}
       /\ futures' = Append(futures, spawned)
       /\ pathsLeft' = pathsLeft - pathsInTask
       /\ firstPath' = firstPath + pathsInTask
       /\ pc' = IF pathsLeft - pathsInTask > 0 THEN "spawn" ELSE "wait"
       /\ waitIdx' = 1

\* pool->spawnTask(...), futures.push_back, and the end of the spawning loop body
SpawnBatch ==
    LET pathsInTask == Min(pathsLeft, batchSize)
        spawned == [firstPath |-> firstPath, pathsInTask |-> pathsInTask]
    IN /\ queue' = queue \cup {spawned}
       /\ futures' = Append(futures, spawned)
       /\ pathsLeft' = pathsLeft - pathsInTask
       /\ firstPath' = firstPath + pathsInTask
       /\ pc' = IF pathsLeft - pathsInTask > 0 THEN "spawn" ELSE "wait"
       /\ waitIdx' = 1

\* mutant of StartedTask: the task's generator is not positioned
StartedTask_NoSkip(tk, r) ==
    [busy |-> TRUE, firstPath |-> tk.firstPath, pathsInTask |-> tk.pathsInTask, i |-> 0,
     antiPath |-> FALSE, taskRng |-> r]

\* the locals of a task that starts: its generator is positioned, its toggle is off
StartedTask(tk, r) ==
    [busy |-> TRUE, firstPath |-> tk.firstPath, pathsInTask |-> tk.pathsInTask, i |-> 0,
     antiPath |-> FALSE, taskRng |-> SkipTo(r, SkipTarget(antithetic, tk.firstPath))]

\* the task returns true: its future is ready (lines 226, 516)
TaskEnd(t) ==
    /\ call \in Parallel
    /\ task[t].busy
    /\ task[t].i = task[t].pathsInTask
    /\ done' = done \cup {task[t].firstPath}
    /\ task' = [task EXCEPT ![t] = IdleTask]
    /\ access' = [access EXCEPT ![t] = {}]
    /\ UNCHANGED <<inputs, call, pc, nCalls, clones, res, seqLoop, spawning, queue, waitIdx,
                   tapeVars, gaussOf, written, trace, ret>>

\* pool->activeWait(future) returns for a future that is ready (lines 234, 524)
ActiveWaitDone ==
    /\ call \in Parallel
    /\ pc = "wait"
    /\ ~task[0].busy
    /\ waitIdx <= Len(futures)
    /\ futures[waitIdx].firstPath \in done
    /\ waitIdx' = waitIdx + 1
    /\ UNCHANGED <<inputs, call, pc, nCalls, clones, res, seqLoop, spawning, queue, done,
                   task, tapeVars, observed, ret>>

\* ------------------------------------------------------------------------
\* mcParallelSimul
\* ------------------------------------------------------------------------

\* lines 155-180
McParSetup ==
    /\ EnterCall("mcParallelSimul")
    /\ LET m == ModelInit(mdl, Timeline, EmptyTape, FALSE, 0).mdl
           r == RngInit(rng, SimDimOf(m))
       IN /\ cMdl' = [cMdl EXCEPT ![0] = m]
          /\ cRng' = [cRng EXCEPT ![0] = r]
          /\ gaussVecs' = [t \in Threads |->
                              IF t <= nThread THEN NewGaussVec(SimDimOf(m)) ELSE <<>>]
          /\ paths' = [t \in Threads |-> IF t <= nThread THEN NewPath(Timeline) ELSE <<>>]
    /\ res' = [p \in 1..nPath |-> Num(0, 0)]
    /\ futures' = <<>>
    /\ firstPath' = 0
    /\ pathsLeft' = nPath
    /\ pc' = "spawn"
    /\ written' = [p \in 1..nPath |-> 0]
    /\ gaussOf' = [p \in 1..nPath |-> <<>>]
    /\ UNCHANGED <<inputs, seqLoop, pool, tapeVars, trace, access, ret>>

\* lines 181-185 and 229-231: one iteration of the spawning loop
McParSpawn ==
    /\ call = "mcParallelSimul"
    /\ pc = "spawn"
    /\ pathsLeft > 0
    /\ SpawnBatch
    /\ UNCHANGED <<inputs, call, nCalls, clones, res, seqLoop, done, task, tapeVars,
                   observed, ret>>

\* lines 189-198: a thread takes a task; threadNum, buffers, generator, toggle
McParTaskStart(t) ==
    /\ call = "mcParallelSimul"
    /\ CanTake(t)
    /\ \E tk \in queue :
          /\ queue' = queue \ {tk}
          /\ task' = [task EXCEPT ![t] = StartedTask(tk, cRng[0])]
    /\ access' = [access EXCEPT ![t] = {<<"cRng", 0, "r">>}]
    /\ UNCHANGED <<inputs, call, pc, nCalls, clones, res, seqLoop, spawning, done, waitIdx,
                   tapeVars, gaussOf, written, trace, ret>>

\* lines 199-223: one iteration of the path loop of a task
McParTaskPath(t) ==
    /\ call = "mcParallelSimul"
    /\ task[t].busy
    /\ task[t].i < task[t].pathsInTask
    /\ LET tk == task[t]
           p == tk.firstPath + tk.i
           n == ThreadNum(t)
           ng == NextGaussian(antithetic, tk.taskRng, gaussVecs[n], tk.antiPath)
           gp == GeneratePath(cMdl[0], ng.gaussVec, paths[n], EmptyTape, FALSE, <<0, p>>)
           po == Payoff(gp.path, EmptyTape, FALSE, <<0, p>>)
       IN /\ task' = [task EXCEPT ![t].taskRng = ng.rng, ![t].antiPath = ng.antiPath,
                                  ![t].i = tk.i + 1]
          /\ gaussVecs' = [gaussVecs EXCEPT ![n] = ng.gaussVec]
          /\ paths' = [paths EXCEPT ![n] = gp.path]
          /\ res' = [res EXCEPT ![p + 1] = po.res]
          /\ gaussOf' = [gaussOf EXCEPT ![p + 1] = ng.gaussVec]
          /\ written' = [written EXCEPT ![p + 1] = @ + 1]
          /\ access' = [access EXCEPT ![t] = @ \cup {<<"gaussVecs", n, "w">>,
                                                      <<"cMdl", 0, "r">>,
                                                      <<"paths", n, "w">>}]
    /\ UNCHANGED <<inputs, call, pc, nCalls, cMdl, cRng, seqLoop, spawning, queue, done,
                   waitIdx, tapeVars, trace, ret>>

\* line 236: return res
McParReturn ==
    /\ call = "mcParallelSimul"
    /\ pc = "wait"
    /\ waitIdx > Len(futures)
    /\ ret' = [ret EXCEPT !["mcParallelSimul"] =
                  [set |-> TRUE, payoffs |-> Values(res), adjoints |-> <<>>, ran |-> {}]]
    /\ LeaveCall
    /\ UNCHANGED <<tape, tapePtr>>

NextPlain ==
    \/ McSimulSetup
    \/ McSimulPath
    \/ McSimulReturn
    \/ McParSetup
    \/ McParSpawn
    \/ \E t \in Threads : McParTaskStart(t)
    \/ \E t \in Threads : McParTaskPath(t)
    \/ \E t \in Threads : TaskEnd(t)
    \/ ActiveWaitDone
    \/ McParReturn

SpecPlain == Init /\ [][NextPlain]_vars

\* ------------------------------------------------------------------------
\* mcSimulAAD
\* ------------------------------------------------------------------------

\* the tape a thread's Number::tape designates
Cur(t) == tapePtr[t].owner

\* mutant of SetupRewind: the tape is not rewound on entry
SetupRewind_None(tp) == tp

\* line 265: tape.rewind()
SetupRewind(tp) == Rewind(tp)

\* mutant of PathRewind: the tape is not rewound to the mark before a path
PathRewind_None(tp) == tp

\* line 290: tape.rewindToMark()
PathRewind(tp) == RewindToMark(tp)

\* mutant of PathPropagate: the adjoints are reset before every propagation
PathPropagate_Reset(tp, r) == PropagateToMark(tp, r, TRUE)

\* line 320: res[i].propagateToMark(false)
PathPropagate(tp, r) == PropagateToMark(tp, r, FALSE)

\* lines 265-279 and 368-382: the set-up operations, in the order of the statements
SetupOps == <<"rewind", "putOnTape", "init", "mark", "rngInit">>

\* lines 290-320 and 481-512: the operations of one path
PathOps == <<"rewindToMark", "generatePath", "payoff", "propagateToMark">>

\* the trace tr after the operations ops on tape k
Traced(tr, ops, k) == tr \o [n \in 1..Len(ops) |-> <<ops[n], k>>]

\* the thread with trace tr has started a path
RanPath(tr) == \E n \in 1..Len(tr) : tr[n][1] = "rewindToMark"

\* the trace after a path on tape k: the operations of the first path are kept
TracedPath(tr, k) == IF RanPath(tr) THEN tr ELSE Traced(tr, PathOps, k)

\* lines 258-284: clones, rewind, putOnTape, init, mark, allocations
McAADSetup ==
    /\ EnterCall("mcSimulAAD")
    /\ LET k == Cur(0)
           rewound == SetupRewind(tape[k])
           put == PutOnTape(mdl, rewound, nCalls + 1)
           ini == ModelInit(put.mdl, Timeline, put.tape, TRUE, nCalls + 1)
           marked == Mark(ini.tape)
           r == RngInit(rng, SimDimOf(ini.mdl))
       IN /\ tape' = [tape EXCEPT ![k] = marked]
          /\ tapeUsers' = [tapeUsers EXCEPT ![k] = @ \cup {0}]
          /\ trace' = [trace EXCEPT ![0] = Traced(@, SetupOps, k)]
          /\ cMdl' = [cMdl EXCEPT ![0] = ini.mdl]
          /\ cRng' = [cRng EXCEPT ![0] = r]
          /\ gaussVecs' = [gaussVecs EXCEPT ![0] = NewGaussVec(SimDimOf(ini.mdl))]
          /\ paths' = [paths EXCEPT ![0] = NewPath(Timeline)]
    /\ res' = [p \in 1..nPath |-> Num(0, 0)]
    /\ i' = 0
    /\ antiPath' = FALSE
    /\ pc' = "loop"
    /\ written' = [p \in 1..nPath |-> 0]
    /\ gaussOf' = [p \in 1..nPath |-> <<>>]
    /\ UNCHANGED <<inputs, spawning, pool, tapePtr, mainThreadPtr, init, finIdx, access,
                   ret>>

\* lines 285-322: one iteration of the path loop
McAADPath ==
    /\ call = "mcSimulAAD"
    /\ pc = "loop"
    /\ i < nPath
    /\ LET k == Cur(0)
           rewound == PathRewind(tape[k])
           ng == NextGaussian(antithetic, cRng[0], gaussVecs[0], antiPath)
           gp == GeneratePath(cMdl[0], ng.gaussVec, paths[0], rewound, TRUE, <<nCalls, i>>)
           po == Payoff(gp.path, gp.tape, TRUE, <<nCalls, i>>)
       IN /\ cRng' = [cRng EXCEPT ![0] = ng.rng]
          /\ gaussVecs' = [gaussVecs EXCEPT ![0] = ng.gaussVec]
          /\ antiPath' = ng.antiPath
          /\ paths' = [paths EXCEPT ![0] = gp.path]
          /\ res' = [res EXCEPT ![i + 1] = po.res]
          /\ tape' = [tape EXCEPT ![k] = PathPropagate(po.tape, po.res.node)]
          /\ tapeUsers' = [tapeUsers EXCEPT ![k] = @ \cup {0}]
          /\ trace' = [trace EXCEPT ![0] = TracedPath(@, k)]
          /\ gaussOf' = [gaussOf EXCEPT ![i + 1] = ng.gaussVec]
    /\ written' = [written EXCEPT ![i + 1] = @ + 1]
    /\ i' = i + 1
    /\ UNCHANGED <<inputs, call, pc, nCalls, cMdl, spawning, pool, tapePtr, mainThreadPtr,
                   init, finIdx, access, ret>>

\* lines 328-341: propagateMarkToStart, conversion of the results, return
McAADReturn ==
    /\ call = "mcSimulAAD"
    /\ pc = "loop"
    /\ i = nPath
    /\ LET k == Cur(0)
           final == PropagateMarkToStart(tape[k])
       IN /\ tape' = [tape EXCEPT ![k] = final]
          /\ ret' = [ret EXCEPT !["mcSimulAAD"] =
                        [set |-> TRUE, payoffs |-> Values(res),
                         adjoints |-> Adjoints(cMdl[0], final), ran |-> {0}]]
    /\ LeaveCall
    /\ UNCHANGED tapePtr

\* ------------------------------------------------------------------------
\* mcParallelSimulAAD
\* ------------------------------------------------------------------------

\* mutant of InitSimul: the model is initialised before its parameters are put on tape
InitSimul_InitBeforePutOnTape(m, r, tp, sim) ==
    LET rewound == Rewind(tp)
        ini == ModelInit(m, Timeline, rewound, TRUE, sim)
        put == PutOnTape(ini.mdl, ini.tape, sim)
        marked == Mark(put.tape)
    IN [mdlClone |-> put.mdl,
        rngClone |-> RngInit(r, SimDimOf(put.mdl)),
        tape |-> marked,
        gaussVec |-> NewGaussVec(SimDimOf(put.mdl)),
        path |-> NewPath(Timeline),
        ops |-> <<"rewind", "init", "putOnTape", "mark", "rngInit">>]

\* initSimul, lines 361-386, on the tape tp the calling thread's Number::tape designates
InitSimul(m, r, tp, sim) ==
    LET rewound == Rewind(tp)
        put == PutOnTape(m, rewound, sim)
        ini == ModelInit(put.mdl, Timeline, put.tape, TRUE, sim)
        marked == Mark(ini.tape)
    IN [mdlClone |-> ini.mdl,
        rngClone |-> RngInit(r, SimDimOf(ini.mdl)),
        tape |-> marked,
        gaussVec |-> NewGaussVec(SimDimOf(ini.mdl)),
        path |-> NewPath(Timeline),
        ops |-> SetupOps]

\* lines 405-444: the worker tapes, the indicators, initSimul of the caller
McParAADSetup ==
    /\ EnterCall("mcParallelSimulAAD")
    /\ LET k == Cur(0)
           is == InitSimul(mdl, rng, tape[k], nCalls + 1)
       IN /\ tape' = [t \in Threads |-> IF t = k THEN is.tape
                                       ELSE IF t = 0 THEN tape[0] ELSE EmptyTape]
          /\ tapeUsers' = [tapeUsers EXCEPT ![k] = @ \cup {0}]
          /\ trace' = [trace EXCEPT ![0] = Traced(@, is.ops, k)]
          /\ cMdl' = [cMdl EXCEPT ![0] = is.mdlClone]
          /\ cRng' = [cRng EXCEPT ![0] = is.rngClone]
          /\ gaussVecs' = [gaussVecs EXCEPT ![0] = is.gaussVec]
          /\ paths' = [paths EXCEPT ![0] = is.path]
    /\ init' = [t \in Threads |-> t = 0]
    /\ res' = [p \in 1..nPath |-> Num(0, 0)]
    /\ futures' = <<>>
    /\ firstPath' = 0
    /\ pathsLeft' = nPath
    /\ pc' = "spawn"
    /\ written' = [p \in 1..nPath |-> 0]
    /\ gaussOf' = [p \in 1..nPath |-> <<>>]
    /\ UNCHANGED <<inputs, seqLoop, pool, tapePtr, mainThreadPtr, finIdx, access, ret>>

\* lines 445-449 and 519-521: one iteration of the spawning loop
McParAADSpawn ==
    /\ call = "mcParallelSimulAAD"
    /\ pc = "spawn"
    /\ pathsLeft > 0
    /\ SpawnBatch
    /\ UNCHANGED <<inputs, call, nCalls, clones, res, seqLoop, done, task, tapeVars,
                   observed, ret>>

\* mutant of BoundTape: a worker binds its Number::tape once, the first time it
\* runs a task of any simulation
BoundTape_OncePerThread(t) ==
    IF t > 0 /\ tapePtr[t] = MainTapePtr THEN [owner |-> t, sim |-> nCalls] ELSE tapePtr[t]

\* mutant of BoundTape: a worker keeps the tape its Number::tape designated
BoundTape_NoRebind(t) == tapePtr[t]

\* line 456: if (threadNum > 0) Number::tape = &tapes[threadNum - 1]
BoundTape(t) == IF t > 0 THEN [owner |-> t, sim |-> nCalls] ELSE tapePtr[t]

\* mutant of NeedsInit: initSimul runs at the start of every batch
NeedsInit_Always(n) == TRUE

\* line 459: if (!init[threadNum])
NeedsInit(n) == ~init[n]

\* lines 451-477: a thread takes a task; its tape, initSimul the first time,
\* generator, toggle
McParAADTaskStart(t) ==
    /\ call = "mcParallelSimulAAD"
    /\ CanTake(t)
    /\ LET ptr == BoundTape(t)
           k == ptr.owner
           n == ThreadNum(t)
           is == InitSimul(mdl, rng, tape[k], nCalls)
       IN /\ tapePtr' = [tapePtr EXCEPT ![t] = ptr]
          /\ IF NeedsInit(n)
             THEN /\ cMdl' = [cMdl EXCEPT ![n] = is.mdlClone]
                  /\ cRng' = [cRng EXCEPT ![n] = is.rngClone]
                  /\ gaussVecs' = [gaussVecs EXCEPT ![n] = is.gaussVec]
                  /\ paths' = [paths EXCEPT ![n] = is.path]
                  /\ tape' = [tape EXCEPT ![k] = is.tape]
                  /\ tapeUsers' = [tapeUsers EXCEPT ![k] = @ \cup {t}]
                  /\ trace' = [trace EXCEPT ![t] = Traced(@, is.ops, k)]
                  /\ init' = [init EXCEPT ![n] = TRUE]
                  /\ access' = [access EXCEPT ![t] =
                                    {<<"init", n, "r">>, <<"cMdl", n, "w">>, <<"cRng", n, "w">>,
                                     <<"gaussVecs", n, "w">>, <<"paths", n, "w">>,
                                     <<"init", n, "w">>, <<"cRng", n, "r">>}]
             ELSE /\ access' = [access EXCEPT ![t] = {<<"init", n, "r">>, <<"cRng", n, "r">>}]
                  /\ UNCHANGED <<clones, tape, tapeUsers, trace, init>>
          /\ \E tk \in queue :
                /\ queue' = queue \ {tk}
                /\ task' = [task EXCEPT ![t] = StartedTask(tk, cRng'[n])]
    /\ UNCHANGED <<inputs, call, pc, nCalls, res, seqLoop, spawning, done, waitIdx,
                   mainThreadPtr, finIdx, gaussOf, written, ret>>

\* mutant of TaskRewind: the tape is not rewound to the mark before a path of a task
TaskRewind_None(tp) == tp

\* line 481: tape.rewindToMark() in a task
TaskRewind(tp) == RewindToMark(tp)

\* lines 478-513: one iteration of the path loop of a task
McParAADTaskPath(t) ==
    /\ call = "mcParallelSimulAAD"
    /\ task[t].busy
    /\ task[t].i < task[t].pathsInTask
    /\ LET tk == task[t]
           p == tk.firstPath + tk.i
           k == Cur(t)
           n == ThreadNum(t)
           rewound == TaskRewind(tape[k])
           ng == NextGaussian(antithetic, tk.taskRng, gaussVecs[n], tk.antiPath)
           gp == GeneratePath(cMdl[n], ng.gaussVec, paths[n], rewound, TRUE, <<nCalls, p>>)
           po == Payoff(gp.path, gp.tape, TRUE, <<nCalls, p>>)
       IN /\ task' = [task EXCEPT ![t].taskRng = ng.rng, ![t].antiPath = ng.antiPath,
                                  ![t].i = tk.i + 1]
          /\ gaussVecs' = [gaussVecs EXCEPT ![n] = ng.gaussVec]
          /\ paths' = [paths EXCEPT ![n] = gp.path]
          /\ res' = [res EXCEPT ![p + 1] = po.res]
          /\ tape' = [tape EXCEPT ![k] = PropagateToMark(po.tape, po.res.node, FALSE)]
          /\ tapeUsers' = [tapeUsers EXCEPT ![k] = @ \cup {t}]
          /\ trace' = [trace EXCEPT ![t] = TracedPath(@, k)]
          /\ gaussOf' = [gaussOf EXCEPT ![p + 1] = ng.gaussVec]
          /\ written' = [written EXCEPT ![p + 1] = @ + 1]
          /\ access' = [access EXCEPT ![t] = @ \cup {<<"gaussVecs", n, "w">>,
                                                      <<"cMdl", n, "r">>,
                                                      <<"paths", n, "w">>}]
    /\ UNCHANGED <<inputs, call, pc, nCalls, cMdl, cRng, seqLoop, spawning, queue, done,
                   waitIdx, tapePtr, mainThreadPtr, init, finIdx, ret>>

\* lines 530-532: propagateMarkToStart on the caller's tape, mainThreadPtr
McParAADPropagateMain ==
    /\ call = "mcParallelSimulAAD"
    /\ pc = "wait"
    /\ waitIdx > Len(futures)
    /\ tape' = [tape EXCEPT ![Cur(0)] = PropagateMarkToStart(@)]
    /\ tapeUsers' = [tapeUsers EXCEPT ![Cur(0)] = @ \cup {0}]
    /\ trace' = [trace EXCEPT ![0] = Traced(@, <<"propagateMarkToStart">>, Cur(0))]
    /\ mainThreadPtr' = tapePtr[0]
    /\ finIdx' = 0
    /\ pc' = "propagate"
    /\ UNCHANGED <<inputs, call, nCalls, clones, res, seqLoop, spawning, pool, tapePtr,
                   init, gaussOf, written, access, ret>>

\* mutant of McParAADPropagateWorker: init[i+1] is not tested
McParAADPropagateWorker_All ==
    /\ call = "mcParallelSimulAAD"
    /\ pc = "propagate"
    /\ finIdx < nThread
    /\ tapePtr' = [tapePtr EXCEPT ![0] = [owner |-> finIdx + 1, sim |-> nCalls]]
    /\ tape' = [tape EXCEPT ![finIdx + 1] = PropagateMarkToStart(@)]
    /\ tapeUsers' = [tapeUsers EXCEPT ![finIdx + 1] = @ \cup {0}]
    /\ trace' = [trace EXCEPT ![0] = Traced(@, <<"propagateMarkToStart">>, finIdx + 1)]
    /\ finIdx' = finIdx + 1
    /\ UNCHANGED <<inputs, call, pc, nCalls, clones, res, seqLoop, spawning, pool,
                   mainThreadPtr, init, gaussOf, written, access, ret>>

\* mutant of McParAADPropagateWorker: the worker tapes are passed over
McParAADPropagateWorker_Skip ==
    /\ call = "mcParallelSimulAAD"
    /\ pc = "propagate"
    /\ finIdx < nThread
    /\ finIdx' = finIdx + 1
    /\ UNCHANGED <<inputs, call, pc, nCalls, clones, res, seqLoop, spawning, pool, tapePtr,
                   tape, tapeUsers, mainThreadPtr, init, observed, ret>>

\* lines 533-542: one iteration of the loop over the worker tapes
McParAADPropagateWorker ==
    /\ call = "mcParallelSimulAAD"
    /\ pc = "propagate"
    /\ finIdx < nThread
    /\ IF init[finIdx + 1]
       THEN /\ tapePtr' = [tapePtr EXCEPT ![0] = [owner |-> finIdx + 1, sim |-> nCalls]]
            /\ tape' = [tape EXCEPT ![finIdx + 1] = PropagateMarkToStart(@)]
            /\ tapeUsers' = [tapeUsers EXCEPT ![finIdx + 1] = @ \cup {0}]
            /\ trace' = [trace EXCEPT ![0] =
                             Traced(@, <<"propagateMarkToStart">>, finIdx + 1)]
       ELSE UNCHANGED <<tapePtr, tape, tapeUsers, trace>>
    /\ finIdx' = finIdx + 1
    /\ UNCHANGED <<inputs, call, pc, nCalls, clones, res, seqLoop, spawning, pool,
                   mainThreadPtr, init, gaussOf, written, access, ret>>

\* mutant of McParAADRestore: Number::tape is left on the last worker tape
McParAADRestore_None ==
    /\ call = "mcParallelSimulAAD"
    /\ pc = "propagate"
    /\ finIdx = nThread
    /\ finIdx' = 0
    /\ pc' = "reduce"
    /\ UNCHANGED <<inputs, call, nCalls, clones, res, seqLoop, spawning, pool, tape, tapePtr,
                   tapeUsers, mainThreadPtr, init, observed, ret>>

\* lines 544-550: Number::tape = mainThreadPtr, params0
McParAADRestore ==
    /\ call = "mcParallelSimulAAD"
    /\ pc = "propagate"
    /\ finIdx = nThread
    /\ tapePtr' = [tapePtr EXCEPT ![0] = mainThreadPtr]
    /\ finIdx' = 0
    /\ pc' = "reduce"
    /\ UNCHANGED <<inputs, call, nCalls, clones, res, seqLoop, spawning, pool, tape,
                   tapeUsers, mainThreadPtr, init, observed, ret>>

\* mutant of AddAdjoints: the adjoints are assigned instead of added
AddAdjoints_Overwrite(nodes, m0, m, tp) ==
    [n \in 1..Len(nodes) |->
        IF \E j \in DOMAIN m0.params : m0.params[j].node = n
        THEN LET j == CHOOSE j \in DOMAIN m0.params : m0.params[j].node = n
             IN [nodes[n] EXCEPT !.adj = Adjoint(m, tp, j)]
        ELSE nodes[n]]

\* lines 556-559: params0[j].adjoint() += params[j].adjoint(), for every j
AddAdjoints(nodes, m0, m, tp) ==
    [n \in 1..Len(nodes) |->
        IF \E j \in DOMAIN m0.params : m0.params[j].node = n
        THEN LET j == CHOOSE j \in DOMAIN m0.params : m0.params[j].node = n
             IN [nodes[n] EXCEPT !.adj = @ + Adjoint(m, tp, j)]
        ELSE nodes[n]]

\* lines 551-561: one iteration of the reduction loop
McParAADReduce ==
    /\ call = "mcParallelSimulAAD"
    /\ pc = "reduce"
    /\ finIdx < nThread
    /\ IF init[finIdx + 1]
       THEN /\ tape' = [tape EXCEPT ![mainThreadPtr.owner].nodes =
                           AddAdjoints(@, cMdl[0], cMdl[finIdx + 1], tape[finIdx + 1])]
            /\ trace' = [trace EXCEPT ![0] = Traced(@, <<"addAdjoints">>, finIdx + 1)]
       ELSE UNCHANGED <<tape, trace>>
    /\ finIdx' = finIdx + 1
    /\ UNCHANGED <<inputs, call, pc, nCalls, clones, res, seqLoop, spawning, pool, tapePtr,
                   tapeUsers, mainThreadPtr, init, gaussOf, written, access, ret>>

\* lines 564-574: conversion of the results, return; the worker tapes are destroyed
McParAADReturn ==
    /\ call = "mcParallelSimulAAD"
    /\ pc = "reduce"
    /\ finIdx = nThread
    /\ ret' = [ret EXCEPT !["mcParallelSimulAAD"] =
                  [set |-> TRUE, payoffs |-> Values(res),
                   adjoints |-> Adjoints(cMdl[0], tape[mainThreadPtr.owner]),
                   ran |-> {t \in Threads : init[t]}]]
    /\ tape' = [t \in Threads |-> IF t = 0 THEN tape[0] ELSE EmptyTape]
    /\ LeaveCall
    /\ UNCHANGED tapePtr

NextAAD ==
    \/ McAADSetup
    \/ McAADPath
    \/ McAADReturn
    \/ McParAADSetup
    \/ McParAADSpawn
    \/ \E t \in Threads : McParAADTaskStart(t)
    \/ \E t \in Threads : McParAADTaskPath(t)
    \/ \E t \in Threads : TaskEnd(t)
    \/ ActiveWaitDone
    \/ McParAADPropagateMain
    \/ McParAADPropagateWorker
    \/ McParAADRestore
    \/ McParAADReduce
    \/ McParAADReturn

SpecAAD == Init /\ [][NextAAD]_vars

Next == NextPlain \/ NextAAD

Spec == Init /\ [][Next]_vars

\* the sequential simulators alone
NextSeq ==
    \/ McSimulSetup
    \/ McSimulPath
    \/ McSimulReturn
    \/ McAADSetup
    \/ McAADPath
    \/ McAADReturn

SpecSeq == Init /\ [][NextSeq]_vars

\* the parallel simulators alone
NextPar ==
    \/ McParSetup
    \/ McParSpawn
    \/ \E t \in Threads : McParTaskStart(t)
    \/ \E t \in Threads : McParTaskPath(t)
    \/ McParReturn
    \/ McParAADSetup
    \/ McParAADSpawn
    \/ \E t \in Threads : McParAADTaskStart(t)
    \/ \E t \in Threads : McParAADTaskPath(t)
    \/ \E t \in Threads : TaskEnd(t)
    \/ ActiveWaitDone
    \/ McParAADPropagateMain
    \/ McParAADPropagateWorker
    \/ McParAADRestore
    \/ McParAADReduce
    \/ McParAADReturn

SpecPar == Init /\ [][NextPar]_vars

\* the parallel simulators compiled with any BATCHSIZE >= 1, odd ones included,
\* and called with antithetic = true
InitAnyBatch == InitWith(AnyBatchSizes) /\ antithetic

SpecParAnyBatch == InitAnyBatch /\ [][NextPar]_vars

\* ------------------------------------------------------------------------
\* Properties
\* ------------------------------------------------------------------------

\* the draw a generator in the caller's state returns at its (n+1)-th nextG
CallerDraw(n) == Draw(rng.pos + n, Len(Timeline))

\* the vector of path p (0-based) under antithetic sampling: draw p / 2,
\* negated when p is odd
PairedGauss(p) == IF p % 2 = 0 THEN CallerDraw(p \div 2) ELSE Negate(CallerDraw(p \div 2))

\* C1: mcParallelSimul returns the same pathwise payoffs as mcSimul on the same
\* product, model, generator, nPath and antithetic flag, whatever the number
\* of threads and the scheduling of the batches.
C1_ParallelEqualsSequential ==
    (ret["mcSimul"].set /\ ret["mcParallelSimul"].set)
        => ret["mcParallelSimul"].payoffs = ret["mcSimul"].payoffs

\* both simulators returned, the parallel one after more than one batch of
\* antithetic paths
C1_Witness ==
    /\ ret["mcSimul"].set
    /\ ret["mcParallelSimul"].set
    /\ antithetic
    /\ nThread > 0
    /\ Len(ret["mcParallelSimul"].payoffs) > batchSize

\* C4: in the sequential simulators with antithetic = true, path i is generated
\* from draw floor(i/2), as drawn when i is even and negated elementwise when i
\* is odd; after i paths the generator was consulted ceil(i/2) times, hence
\* ceil(nPath/2) times in all, and the last path of an odd nPath is a primary
\* draw left unpaired.
C4_SequentialAntithetic ==
    (call \in {"mcSimul", "mcSimulAAD"} /\ antithetic) =>
        /\ \A p \in 0..(i - 1) : gaussOf[p + 1] = PairedGauss(p)
        /\ cRng[0].pos - rng.pos = (i + 1) \div 2
        /\ (i = nPath /\ nPath % 2 = 1) =>
              /\ gaussOf[nPath] = CallerDraw((nPath - 1) \div 2)
              /\ antiPath

\* mcSimulAAD ran an odd number (at least 3) of antithetic paths
C4_Witness ==
    /\ call = "mcSimulAAD"
    /\ antithetic
    /\ i = nPath
    /\ nPath % 2 = 1
    /\ nPath >= 3

\* the paths generated so far in a parallel simulator are the antithetic pairs
PairsPreserved ==
    \A p \in 0..(nPath - 1) : written[p + 1] > 0 => gaussOf[p + 1] = PairedGauss(p)

\* C5 as stated, for every BATCHSIZE >= 1: in the parallel simulators with
\* antithetic = true the path at absolute index p is generated from draw
\* floor(p/2), negated exactly when p is odd.
C5_AnyBatchSize ==
    (call \in Parallel /\ antithetic) => PairsPreserved

\* C5 amended, for every even BATCHSIZE (64 in the source): in the parallel
\* simulators with antithetic = true the path at absolute index p is generated
\* from draw floor(p/2), negated exactly when p is odd.
C5_EvenBatchSize ==
    (call \in Parallel /\ antithetic /\ batchSize % 2 = 0) => PairsPreserved

\* mcParallelSimulAAD generated all the paths of several batches of an even size
C5_Witness ==
    /\ call = "mcParallelSimulAAD"
    /\ antithetic
    /\ batchSize % 2 = 0
    /\ nPath > batchSize
    /\ \A p \in 1..nPath : written[p] = 1

\* the vector of path p (0-based) of a simulation of the caller's inputs
PathGauss(p) == IF antithetic THEN PairedGauss(p) ELSE CallerDraw(p)

\* Forward differentiation of the payoff of one path with respect to
\* parameter j, from the formulas of the model and the product
CoefValue == ParamValues[1] * ParamValues[2]

CoefDeriv(j) == IF j = 1 THEN ParamValues[2] ELSE ParamValues[1]

RECURSIVE SpotValue(_, _)
SpotValue(g, t) == IF t = 0 THEN ParamValues[1] ELSE SpotValue(g, t - 1) + CoefValue * g[t]

RECURSIVE SpotDeriv(_, _, _)
SpotDeriv(j, g, t) ==
    IF t = 0 THEN (IF j = 1 THEN 1 ELSE 0) ELSE SpotDeriv(j, g, t - 1) + CoefDeriv(j) * g[t]

PayoffDeriv(j, g) ==
    SpotDeriv(j, g, 1) * SpotValue(g, Len(Timeline))
        + SpotValue(g, 1) * SpotDeriv(j, g, Len(Timeline))

\* the sum over the first n paths of the sensitivity of the payoff to parameter j
RECURSIVE SumSens(_, _)
SumSens(j, n) == IF n = 0 THEN 0 ELSE SumSens(j, n - 1) + PayoffDeriv(j, PathGauss(n - 1))

AADSims == {"mcSimulAAD", "mcParallelSimulAAD"}

\* C2: the parameter adjoints of the model returned by mcParallelSimulAAD equal
\* those of the model returned by mcSimulAAD for the same inputs, whatever the
\* number of threads and the threads (the caller included) the batches ran on.
C2_ParallelAdjointsEqualSequential ==
    (ret["mcSimulAAD"].set /\ ret["mcParallelSimulAAD"].set)
        => ret["mcParallelSimulAAD"].adjoints = ret["mcSimulAAD"].adjoints

\* both AAD simulators returned, the parallel one after several batches that
\* ran on the caller and on at least one worker
C2_Witness ==
    /\ ret["mcSimulAAD"].set
    /\ ret["mcParallelSimulAAD"].set
    /\ Cardinality(ret["mcParallelSimulAAD"].ran) >= 2
    /\ Len(ret["mcParallelSimulAAD"].payoffs) > batchSize

\* C3: when mcSimulAAD returns, each parameter adjoint of the returned model is
\* the sum over all nPath paths of the path's payoff sensitivity to the
\* parameter; during the path loop the adjoints accumulate without being reset:
\* after i paths the parameter's adjoint plus what propagateMarkToStart will
\* bring from the init node is the sum over these i paths.
C3_AccumulatedAdjoints ==
    /\ ret["mcSimulAAD"].set =>
          \A j \in DOMAIN ParamValues : ret["mcSimulAAD"].adjoints[j] = SumSens(j, nPath)
    /\ call = "mcSimulAAD" =>
          \A j \in DOMAIN ParamValues :
              Adjoint(cMdl[0], tape[0], j)
                  + CoefDeriv(j) * tape[0].nodes[cMdl[0].coef.node].adj = SumSens(j, i)

\* mcSimulAAD returned the adjoints accumulated over at least three paths
C3_Witness ==
    /\ ret["mcSimulAAD"].set
    /\ nPath >= 3
    /\ \A j \in DOMAIN ParamValues : ret["mcSimulAAD"].adjoints[j] # 0

\* the tasks that returned or are running, with the paths each has computed
Computed(p) ==
    \/ \E k \in 1..Len(futures) :
          /\ futures[k].firstPath \in done
          /\ p >= futures[k].firstPath
          /\ p < futures[k].firstPath + futures[k].pathsInTask
    \/ \E t \in Threads :
          /\ task[t].busy
          /\ p >= task[t].firstPath
          /\ p < task[t].firstPath + task[t].i

AllBatchesWaited ==
    \/ pc = "wait" /\ waitIdx > Len(futures)
    \/ pc \in {"propagate", "reduce"}

\* C6: in both parallel simulators the spawned batches are the contiguous
\* ranges [firstPath, firstPath + pathsInTask) that partition [0, nPath), each
\* of BATCHSIZE paths except possibly the last; res[p] is written once, by the
\* task whose range holds p, at its absolute index; every index has been
\* written when the caller has waited for every batch.
C6_BatchesPartition ==
    call \in Parallel =>
        /\ \A k \in 1..Len(futures) :
              /\ futures[k].firstPath = (k - 1) * batchSize
              /\ futures[k].pathsInTask >= 1
              /\ futures[k].pathsInTask <= batchSize
              /\ (k < Len(futures) \/ pathsLeft > 0) => futures[k].pathsInTask = batchSize
        /\ firstPath + pathsLeft = nPath
        /\ pathsLeft >= 0
        /\ Len(futures) > 0 =>
              futures[Len(futures)].firstPath + futures[Len(futures)].pathsInTask = firstPath
        /\ \A p \in 0..(nPath - 1) : written[p + 1] = IF Computed(p) THEN 1 ELSE 0
        /\ AllBatchesWaited => \A p \in 0..(nPath - 1) : written[p + 1] = 1

\* the caller of mcParallelSimul waited for three batches, the last one shorter
C6_Witness ==
    /\ call = "mcParallelSimul"
    /\ AllBatchesWaited
    /\ Len(futures) >= 3
    /\ futures[Len(futures)].pathsInTask < batchSize

\* C7 as stated: during mcParallelSimulAAD no tape is operated on by two
\* threads; worker k only touches tapes[k-1] and the caller only its own tape.
C7_OneThreadPerTape ==
    call = "mcParallelSimulAAD" => \A k \in Threads : tapeUsers[k] \subseteq {k}

\* C7 amended: while batches are spawned and run, worker k only touches
\* tapes[k-1] and the caller only the tape that was current on entry; once
\* every batch has completed, and no task is running or queued, the caller
\* alone also operates (propagateMarkToStart) on the tapes of the workers.
C7_NoConcurrentUse ==
    call = "mcParallelSimulAAD" =>
        /\ \A t \in Threads : task[t].busy => Cur(t) = t
        /\ tapeUsers[0] \subseteq {0}
        /\ ~AllBatchesWaited => \A k \in Threads : tapeUsers[k] \subseteq {k}
        /\ AllBatchesWaited =>
              /\ \A k \in Threads : tapeUsers[k] \subseteq {k, 0}
              /\ \A t \in Threads : ~task[t].busy
              /\ queue = {}

\* two workers ran batches and the caller then propagated on both their tapes
C7_Witness ==
    /\ call = "mcParallelSimulAAD"
    /\ pc = "reduce"
    /\ tapeUsers[1] = {0, 1}
    /\ tapeUsers[2] = {0, 2}

\* C8: no step of any of the four simulators modifies the caller's model or
\* generator: init, putOnTape, nextG and skipTo act on clones only.
C8_CallerUntouched == [][mdl' = mdl /\ rng' = rng]_vars

\* inside mcParallelSimulAAD a worker's model clone is on tape and initialised and
\* the generator of its task has advanced, the caller's model and generator not
C8_Witness ==
    /\ call = "mcParallelSimulAAD"
    /\ \E t \in 1..MaxThread :
          /\ task[t].busy
          /\ task[t].taskRng.pos > rng.pos
          /\ task[t].taskRng.dim > rng.dim
          /\ cMdl[t].inited
          /\ cMdl[t].params[1].node > 0
    /\ ~mdl.inited
    /\ mdl.params[1].node = 0
    /\ ret["mcSimul"].set

SetupNodes == Len(ParamValues) + 1

PathNodes == Len(Timeline) + Len(Timeline) + 1

PathNodesOn(tp) == {n \in 1..Len(tp.nodes) : tp.nodes[n].kind = "path"}

\* C9 as stated: when an AAD simulator returns, the mark of the tape has been
\* released and no per-path node remains on the tape.
C9_TapeCleanOnReturn ==
    [][(call \in AADSims /\ call' = "idle")
          => (~tape'[0].marked /\ PathNodesOn(tape'[0]) = {})]_vars

\* C9 amended: when an AAD simulator returns, the caller's tape still holds its
\* mark and the set-up nodes (after mcSimulAAD also the nodes of the last path;
\* the worker tapes of mcParallelSimulAAD are destroyed); they are released by
\* the rewind at the start of the next AAD simulator, so that during an AAD
\* simulator every node on a tape was recorded by that call.
C9_ReleasedByNextRewind ==
    [][/\ (call \in AADSims /\ call' = "idle") =>
             /\ tape'[0].marked
             /\ tape'[0].mark = SetupNodes
             /\ Len(tape'[0].nodes) >= SetupNodes
             /\ call = "mcSimulAAD" => PathNodesOn(tape'[0]) # {}
             /\ \A k \in 1..MaxThread : tape'[k] = EmptyTape
       /\ call' \in AADSims =>
             \A k \in Threads : \A n \in 1..Len(tape'[k].nodes) :
                 tape'[k].nodes[n].sim = nCalls']_vars

\* a second AAD simulator runs paths after mcSimulAAD returned
C9_Witness ==
    /\ nCalls >= 2
    /\ ret["mcSimulAAD"].set
    /\ call \in AADSims
    /\ \E n \in PathNodesOn(tape[0]) : tape[0].nodes[n].sim = nCalls

\* C10: over consecutive calls of mcSimulAAD the number of nodes on the tape
\* never exceeds the set-up nodes plus the nodes of one path: it grows neither
\* with the number of calls nor with nPath.
C10_TapeBounded == Len(tape[0].nodes) <= SetupNodes + PathNodes

\* a second consecutive mcSimulAAD ran its last path of several, the tape full
C10_Witness ==
    /\ nCalls >= 2
    /\ ret["mcSimulAAD"].set
    /\ call = "mcSimulAAD"
    /\ i = nPath
    /\ nPath >= 2
    /\ Len(tape[0].nodes) = SetupNodes + PathNodes

\* ------------------------------------------------------------------------
\* Scheduling of the parallel simulators.  The caller is a running thread: it
\* takes the step it can take.  A task a thread has started is straight-line
\* code that never blocks: it runs to its return.  Nothing makes a worker take
\* a queued task: the pool may be fully occupied.
\* ------------------------------------------------------------------------

\* the steps of the caller's thread inside a parallel simulator, the paths of
\* the tasks it runs apart
MainThreadStep ==
    \/ McParSpawn
    \/ McParTaskStart(0)
    \/ McParReturn
    \/ McParAADSpawn
    \/ McParAADTaskStart(0)
    \/ TaskEnd(0)
    \/ ActiveWaitDone
    \/ McParAADPropagateMain
    \/ McParAADPropagateWorker
    \/ McParAADRestore
    \/ McParAADReduce
    \/ McParAADReturn

\* McParTaskPath(t) or McParAADTaskPath(t), seen on the observation it
\* increments: the task thread t runs computes its next path
TaskPathStep(t) ==
    /\ call \in Parallel
    /\ task[t].busy
    /\ task[t].i < task[t].pathsInTask
    /\ written' = [written EXCEPT ![task[t].firstPath + task[t].i + 1] = @ + 1]

SpecParLive ==
    /\ Init
    /\ [][NextPar]_vars
    /\ WF_vars(MainThreadStep)
    /\ \A t \in Threads : WF_written(TaskPathStep(t))
    /\ \A t \in 1..MaxThread : WF_vars(TaskEnd(t))

\* C11: every call of mcParallelSimul and mcParallelSimulAAD eventually
\* returns, whether or not a worker ever takes a task: the caller runs the
\* queued batches itself while it waits.
C11_EventuallyReturns == (call \in Parallel) ~> (call = "idle")

\* all the batches of a call were run by the caller although workers exist
C11_Witness ==
    /\ call = "mcParallelSimulAAD"
    /\ pc = "wait"
    /\ Len(futures) >= 2
    /\ waitIdx > Len(futures)
    /\ nThread >= 1
    /\ \A t \in 1..MaxThread : ~init[t]

\* ------------------------------------------------------------------------
\* RNG::skipTo on its own: a generator in any state, a clone of it that is
\* positioned with skipTo(b) and then asked for one vector, and a second
\* generator in the same state that is asked for b + 1 vectors.  cRng[0] is
\* the clone, cRng[1] the second generator, firstPath the argument b (the
\* simulators pass firstPath or firstPath / 2), i the number of nextG calls
\* made on the second generator.
\* ------------------------------------------------------------------------
SkipInit ==
    /\ nPath = 1
    /\ antithetic = FALSE
    /\ nThread = 0
    /\ batchSize = MaxBatch
    /\ mdl = NewModel
    /\ rng \in {[dim |-> d, pos |-> s] : d \in 1..Len(Timeline), s \in 0..MaxSeed}
    /\ call = "skipTo"
    /\ pc = "clone"
    /\ nCalls = 0
    /\ cMdl = [t \in Threads |-> NewModel]
    /\ cRng = [t \in Threads |-> NewRng(0)]
    /\ gaussVecs = [t \in Threads |-> <<>>]
    /\ paths = [t \in Threads |-> <<>>]
    /\ res = <<>>
    /\ i = 0
    /\ antiPath = FALSE
    /\ firstPath \in 0..MaxSkip
    /\ pathsLeft = 0
    /\ futures = <<>>
    /\ init = [t \in Threads |-> FALSE]
    /\ queue = {}
    /\ done = {}
    /\ task = [t \in Threads |-> IdleTask]
    /\ waitIdx = 0
    /\ finIdx = 0
    /\ tape = [t \in Threads |-> EmptyTape]
    /\ tapePtr = [t \in Threads |-> MainTapePtr]
    /\ mainThreadPtr = MainTapePtr
    /\ gaussOf = <<>>
    /\ written = <<>>
    /\ tapeUsers = [t \in Threads |-> {}]
    /\ trace = [t \in Threads |-> <<>>]
    /\ access = [t \in Threads |-> {}]
    /\ ret = [s \in Simulators |-> NoResult]

\* auto taskRng = cRng->clone(); taskRng->skipTo(b)
SkipClone ==
    /\ call = "skipTo"
    /\ pc = "clone"
    /\ cRng' = [cRng EXCEPT ![0] = SkipTo(rng, firstPath), ![1] = rng]
    /\ pc' = "nextG"
    /\ UNCHANGED <<inputs, call, nCalls, cMdl, gaussVecs, paths, res, seqLoop, spawning,
                   pool, tapeVars, observed, ret>>

\* taskRng->nextG(gaussVec) on the positioned clone
SkipNextG ==
    /\ call = "skipTo"
    /\ pc = "nextG"
    /\ cRng' = [cRng EXCEPT ![0] = NextG(cRng[0]).rng]
    /\ gaussVecs' = [gaussVecs EXCEPT ![0] = NextG(cRng[0]).gaussVec]
    /\ pc' = "repeat"
    /\ UNCHANGED <<inputs, call, nCalls, cMdl, paths, res, seqLoop, spawning, pool,
                   tapeVars, observed, ret>>

\* one more nextG on the second generator, b + 1 in all
RepeatNextG ==
    /\ call = "skipTo"
    /\ pc = "repeat"
    /\ i < firstPath + 1
    /\ cRng' = [cRng EXCEPT ![1] = NextG(cRng[1]).rng]
    /\ gaussVecs' = [gaussVecs EXCEPT ![1] = NextG(cRng[1]).gaussVec]
    /\ i' = i + 1
    /\ UNCHANGED <<inputs, call, pc, nCalls, cMdl, paths, res, antiPath, spawning, pool,
                   tapeVars, observed, ret>>

NextSkip ==
    \/ SkipClone
    \/ SkipNextG
    \/ RepeatNextG

SpecSkip == SkipInit /\ [][NextSkip]_vars

Positions(tr, op) == {n \in 1..Len(tr) : tr[n][1] = op}

\* the set-up of a thread, as its trace and its tape show it: the five
\* operations once each, in this order, at the head of the trace and on one
\* tape; on that tape the parameter leaves, then the node of init, whose
\* arguments are the parameter leaves, then the mark
SetupInOrder(t) ==
    LET tr == trace[t]
        k == tr[1][2]
    IN /\ Len(tr) >= 5
       /\ tr[1] = <<"rewind", k>>
       /\ tr[2] = <<"putOnTape", k>>
       /\ tr[3] = <<"init", k>>
       /\ tr[4] = <<"mark", k>>
       /\ tr[5] = <<"rngInit", k>>
       /\ \A n \in 6..Len(tr) :
             tr[n][1] \notin {"rewind", "putOnTape", "init", "mark", "rngInit"}
       /\ tape[k].marked
       /\ tape[k].mark = Len(ParamValues) + 1
       /\ \A j \in 1..Len(ParamValues) : tape[k].nodes[j].kind = "param"
       /\ tape[k].nodes[tape[k].mark].kind = "init"
       /\ tape[k].nodes[tape[k].mark].args = [j \in 1..Len(ParamValues) |-> j]
       /\ cRng[t].dim = Len(Timeline)

\* C13: in mcSimulAAD and mcParallelSimulAAD a thread that has performed any
\* operation, and so every thread that runs a path, has first performed
\* rewind, putOnTape, init(timeline), mark and rng.init(simDim), in this
\* order; its rewindToMark, generatePath and payoff come after them.
C13_SetupBeforePaths ==
    call \in AADSims =>
        \A t \in Threads :
            (trace[t] # <<>> \/ task[t].busy) =>
                /\ SetupInOrder(t)
                /\ \A op \in {"rewindToMark", "generatePath", "payoff"} :
                      \A n \in Positions(trace[t], op) : n > 5

\* the caller and a worker have both run paths of one mcParallelSimulAAD
C13_Witness ==
    /\ call = "mcParallelSimulAAD"
    /\ RanPath(trace[0])
    /\ \E t \in 1..MaxThread : RanPath(trace[t]) /\ Positions(trace[t], "payoff") = {8}

\* the tapes that were set up in the current call
SetUpTapes == {k \in Threads : \E t \in Threads : trace[t] # <<>> /\ trace[t][1][2] = k}

\* tape k between two operations of the path loop: the mark stands right after
\* the parameter leaves and the node of init, and what lies beyond it is
\* nothing or the nodes of one path
MarkBetweenSetupAndPath(k) ==
    LET tp == tape[k]
    IN /\ tp.marked
       /\ tp.mark = Len(ParamValues) + 1
       /\ Len(tp.nodes) >= tp.mark
       /\ \A n \in 1..tp.mark :
             /\ tp.nodes[n].kind = (IF n <= Len(ParamValues) THEN "param" ELSE "init")
             /\ tp.nodes[n].path = -1
       /\ \A n \in (tp.mark + 1)..Len(tp.nodes) : tp.nodes[n].kind = "path"
       /\ \A a, b \in (tp.mark + 1)..Len(tp.nodes) : tp.nodes[a].path = tp.nodes[b].path
       /\ Len(tp.nodes) - tp.mark \in {0, PathNodes}

\* C14: in the AAD simulators every tape that was set up keeps its mark where
\* the set-up put it, right after the parameter and init nodes, and never
\* holds the nodes of more than one path beyond the mark: every path starts
\* from the mark.
C14_MarkAtPathBoundary ==
    [][/\ call' \in AADSims => \A k \in SetUpTapes' : MarkBetweenSetupAndPath(k)'
       /\ (call \in AADSims /\ call' = call) =>
             \A k \in SetUpTapes : tape'[k].marked /\ tape'[k].mark = tape[k].mark]_vars

\* a worker has computed two paths or more on its tape, the caller one or more
C14_Witness ==
    /\ call = "mcParallelSimulAAD"
    /\ Len(tape[0].nodes) = SetupNodes + PathNodes
    /\ \E t \in 1..MaxThread :
          /\ task[t].busy
          /\ task[t].i >= 2
          /\ Len(tape[t].nodes) = SetupNodes + PathNodes
          /\ tape[t].nodes[Len(tape[t].nodes)].path = task[t].firstPath + task[t].i - 1

\* the tapes the caller has called propagateMarkToStart on, and the worker
\* models whose adjoints it has added, in this call
PropagatedTapes == {trace[0][n][2] : n \in Positions(trace[0], "propagateMarkToStart")}

ReducedModels == {trace[0][n][2] : n \in Positions(trace[0], "addAdjoints")}

\* C15: in mcParallelSimulAAD the adjoints of the worker models are added to
\* those of the caller's model only once every batch has returned and
\* propagateMarkToStart has run on the caller's tape and on the tape of every
\* initialised worker; the caller does it alone, the workers in increasing
\* thread index.
C15_ReductionAfterPropagation ==
    (call = "mcParallelSimulAAD" /\ (pc = "reduce" \/ ReducedModels # {})) =>
        /\ pc = "reduce"
        /\ queue = {}
        /\ \A t \in Threads : ~task[t].busy
        /\ \A k \in 1..Len(futures) : futures[k].firstPath \in done
        /\ \A p \in 1..nPath : written[p] = 1
        /\ PropagatedTapes = {k \in Threads : init[k]}
        /\ \A n \in Positions(trace[0], "propagateMarkToStart") :
              \A m \in Positions(trace[0], "addAdjoints") : n < m
        /\ \A t \in 1..MaxThread :
              /\ Positions(trace[t], "addAdjoints") = {}
              /\ Positions(trace[t], "propagateMarkToStart") = {}
        /\ ReducedModels = {k \in 1..finIdx : init[k]}
        /\ \A m, n \in Positions(trace[0], "addAdjoints") :
              m < n => trace[0][m][2] < trace[0][n][2]

\* the adjoints of two workers have been added, after batches on three threads
C15_Witness ==
    /\ call = "mcParallelSimulAAD"
    /\ pc = "reduce"
    /\ ReducedModels = {1, 2}
    /\ RanPath(trace[0])
    /\ PropagatedTapes = {0, 1, 2}

\* the per-thread objects of the parallel simulators
PerThreadObjects == {"cMdl", "cRng", "gaussVecs", "paths"}

\* two accesses that are not both reads fall on the same object
Conflict(a, b) == a[1] = b[1] /\ a[2] = b[2] /\ (a[3] = "w" \/ b[3] = "w")

\* C16 as stated: in both parallel simulators no two running tasks read or
\* write the same model clone, generator clone, Gaussian buffer or path
\* buffer.
C16_NoSharedObject ==
    call \in Parallel =>
        \A t, u \in Threads :
            t # u => \A a \in access[t] : \A b \in access[u] :
                        a[1] \in PerThreadObjects => ~(a[1] = b[1] /\ a[2] = b[2])

\* C16 amended: the Gaussian buffer and the path buffer a task reads or
\* writes are those of its thread, and so are the model clone and the
\* generator clone in mcParallelSimulAAD; in mcParallelSimul there is one model
\* clone and one generator clone, which every task reads (generatePath,
\* clone) and no task writes; no running task writes an object that another
\* running task reads or writes.
C16_NoConflictingAccess ==
    call \in Parallel =>
        /\ \A t \in Threads : \A a \in access[t] :
              /\ a[1] \in {"gaussVecs", "paths"} => a[2] = t
              /\ (a[1] \in {"cMdl", "cRng"} /\ call = "mcParallelSimulAAD") => a[2] = t
              /\ (a[1] \in {"cMdl", "cRng"} /\ call = "mcParallelSimul") =>
                    a[2] = 0 /\ a[3] = "r"
        /\ \A t, u \in Threads :
              t # u => \A a \in access[t] : \A b \in access[u] : ~Conflict(a, b)

\* two tasks of mcParallelSimul, on the caller and on a worker, have each
\* cloned the one generator clone and generated a path from the one model clone
C16_Witness ==
    /\ call = "mcParallelSimul"
    /\ task[0].busy
    /\ task[0].i >= 1
    /\ \E t \in 1..MaxThread :
          /\ task[t].busy
          /\ task[t].i >= 1
          /\ {<<"cRng", 0, "r">>, <<"cMdl", 0, "r">>} \subseteq access[0] \cap access[t]

\* how many times initSimul has run on thread t in this call
InitCount(t) == Cardinality(Positions(trace[t], "rewind"))

\* thread t has started a batch in this call
RanBatch(t) == task[t].busy \/ RanPath(trace[t])

\* C17 as stated: in mcParallelSimulAAD initSimul has run once on the threads
\* that execute a batch and never on a thread that runs no batch.
C17_InitIffBatch ==
    (call = "mcParallelSimulAAD" /\ AllBatchesWaited) =>
        \A t \in Threads : InitCount(t) = (IF RanBatch(t) THEN 1 ELSE 0)

\* C17 amended: in mcParallelSimulAAD initSimul runs once on the caller,
\* before any batch is spawned and whether or not the caller then runs a
\* batch; on a worker it runs once, at the start of the first batch the worker
\* runs, and never on a worker that runs no batch; a running task reads and
\* writes no entry of init but its own.
C17_InitOncePerThread ==
    call = "mcParallelSimulAAD" =>
        /\ init[0]
        /\ InitCount(0) = 1
        /\ trace[0][1][1] = "rewind"
        /\ \A t \in 1..MaxThread :
              /\ init[t] <=> RanBatch(t)
              /\ InitCount(t) = (IF RanBatch(t) THEN 1 ELSE 0)
              /\ RanBatch(t) => trace[t][1][1] = "rewind"
        /\ \A t \in Threads : \A a \in access[t] : a[1] = "init" => a[2] = t

\* every batch has returned: one worker ran them all, in two tasks or more,
\* the caller and the other worker ran none
C17_Witness ==
    /\ call = "mcParallelSimulAAD"
    /\ AllBatchesWaited
    /\ Len(futures) >= 2
    /\ nThread = 2
    /\ ~RanBatch(0)
    /\ \E t \in 1..MaxThread : init[t] /\ InitCount(t) = 1
    /\ \E t \in 1..MaxThread : ~init[t]

\* C18: in mcParallelSimulAAD a worker that ran no batch is passed over at
\* finalisation: its tape stays empty and unmarked and nobody operates on it,
\* the caller's Number::tape never designates it, its model clone stays null
\* and is not read, and the reduced adjoints are the sums over all the paths
\* without it.
C18_IdleWorkerSkipped ==
    call = "mcParallelSimulAAD" =>
        /\ \A k \in 1..MaxThread :
              ~init[k] =>
                  /\ tape[k] = EmptyTape
                  /\ tapeUsers[k] = {}
                  /\ tapePtr[0].owner # k
                  /\ k \notin PropagatedTapes
                  /\ k \notin ReducedModels
                  /\ cMdl[k] = NewModel
        /\ (pc = "reduce" /\ finIdx = nThread) =>
              \A j \in DOMAIN ParamValues : Adjoint(cMdl[0], tape[0], j) = SumSens(j, nPath)

\* the reduction is over: of two workers one ran batches, the other none
C18_Witness ==
    /\ call = "mcParallelSimulAAD"
    /\ pc = "reduce"
    /\ nThread = 2
    /\ finIdx = nThread
    /\ \E k \in 1..MaxThread : init[k] /\ k \in ReducedModels
    /\ \E k \in 1..MaxThread : ~init[k] /\ k < nThread

\* C19: in every mcParallelSimulAAD, the first or a later one that finds the
\* workers' Number::tape left on the tapes of an earlier simulation, a worker
\* that runs a task has its Number::tape on its own tape of the current
\* simulation; what it rewinds, records and propagates is on that tape, which
\* holds nodes of the current simulation only.
C19_WorkerOnCurrentTape ==
    call = "mcParallelSimulAAD" =>
        \A t \in 1..MaxThread :
            /\ task[t].busy => tapePtr[t] = [owner |-> t, sim |-> nCalls]
            /\ \A n \in 1..Len(trace[t]) : trace[t][n][2] = t
            /\ tapeUsers[t] \subseteq {t, 0}
            /\ \A n \in 1..Len(tape[t].nodes) : tape[t].nodes[n].sim = nCalls

\* a worker that ran batches of a first mcParallelSimulAAD has computed a
\* path in a second one
C19_Witness ==
    /\ call = "mcParallelSimulAAD"
    /\ nCalls = 2
    /\ ret["mcParallelSimulAAD"].set
    /\ \E t \in 1..MaxThread :
          /\ t \in ret["mcParallelSimulAAD"].ran
          /\ task[t].busy
          /\ task[t].i >= 1
          /\ tapePtr[t].sim = 2

\* C20: the caller's Number::tape designates, when mcParallelSimulAAD returns
\* and ever after, the tape it designated on entry (MainTapePtr, the caller's
\* tape): inside the call it leaves that tape only in the loop over the worker
\* tapes, where mainThreadPtr holds it, and it is back on it before the
\* reduction, whichever batches the caller ran while it waited.
C20_MainTapeRestored ==
    /\ (call = "mcParallelSimulAAD" /\ pc = "propagate") => mainThreadPtr = MainTapePtr
    /\ ~(call = "mcParallelSimulAAD" /\ pc = "propagate") => tapePtr[0] = MainTapePtr

\* the caller ran a batch while it waited, its Number::tape went to the tapes
\* of two workers during finalisation, and it is back on the caller's tape
C20_Witness ==
    /\ call = "mcParallelSimulAAD"
    /\ pc = "reduce"
    /\ RanPath(trace[0])
    /\ PropagatedTapes = {0, 1, 2}
    /\ finIdx = nThread
    /\ tapePtr[0] = MainTapePtr
    /\ mainThreadPtr = MainTapePtr

====
